---- MODULE Spec2Model ----
(***************************************************************************)
(* A model of NocPlugin.generate_plan (buildmap/plugins/noc/__init__.py):  *)
(* loading of locations and links, orientation of the links away from the  *)
(* core switch, validation of fibre cores, and coalescing of physical      *)
(* links into logical links.                                               *)
(*                                                                         *)
(* A Location is identified by its name (the key of self.locations).  A    *)
(* Link is a mutable object compared by identity; its identity is its      *)
(* index in self.links, so processed_links is a set of indices and a       *)
(* LogicalLink's physical_links is a sequence of indices.  Link.length,    *)
(* deployed and fibre_name are read by none of the modelled methods and    *)
(* are left out.                                                           *)
(*                                                                         *)
(* The recursive methods are operators that thread the mutable state       *)
(* through their loops in the order the code runs them.  Python raises     *)
(* RecursionError when the call depth passes the interpreter's limit; the  *)
(* operators carry the depth and raise at RecursionLimit.  The limit is    *)
(* kept above the number of locations, so that it is reached only by a     *)
(* recursion that revisits a location while that location is still on the  *)
(* call stack.  _validate_child_link_cores and _make_logical_link decide   *)
(* their calls from link fields they never change, so such a recursion     *)
(* never ends on its own and reaches any finite limit.                     *)
(***************************************************************************)
EXTENDS Integers, Sequences, FiniteSets, TLC

VARIABLES
    db_points,            \* rows of the location layer (input, never changes)
    db_lines,             \* rows of the link layers (input, never changes)
    opts_core,            \* self.opts.get("core") (input, never changes)
    pc,                   \* position inside generate_plan
    locations,            \* self.locations, in insertion order
    links,                \* self.links
    processed_links,      \* self.processed_links
    processed_locations,  \* self.processed_locations
    logical_links,        \* self.logical_links
    warnings,             \* self.warnings
    root_switch,          \* generate_plan's local root_switch
    row_idx,              \* next row of db_lines that get_links yields from
    switch_idx,           \* next entry of self.locations in the coalescing loop
    raised,               \* the exception that ended generate_plan at pc, or None
    expanded              \* history: the locations order_links_from_location
                          \* went past its guard for, in the order of the calls

vars == <<db_points, db_lines, opts_core, pc, locations, links, processed_links,
          processed_locations, logical_links, warnings, root_switch, row_idx,
          switch_idx, raised, expanded>>

inputs == <<db_points, db_lines, opts_core>>

(***************************************************************************)
(* Bounds of the model.                                                    *)
(***************************************************************************)
NumLocations == 3
MaxLinks == 3
MaxCoresRequired == 2

LocNames == <<"Core", "A", "B", "C", "D", "E">>

None == "None"

Fibre == "fibre"
Copper == "copper"
LinkType == {Copper, Fibre}

Min(a, b) == IF a < b THEN a ELSE b

Names(n) == {LocNames[i] : i \in 1..Min(n, Len(LocNames))}

RecursionLimit == Len(LocNames) + 2

(***************************************************************************)
(* Value objects.                                                          *)
(***************************************************************************)
Location(name, cores_required) ==
    [name |-> name, cores_required |-> cores_required]

Link(from_location, to_location, type, cores, aggregated) ==
    [from_location |-> from_location, to_location |-> to_location,
     type |-> type, cores |-> cores, aggregated |-> aggregated,
     cores_used |-> 0]

LogicalLink(from_location, to_location, type) ==
    [from_location |-> from_location, to_location |-> to_location,
     type |-> type, physical_links |-> <<>>]

\* A message appended to self.warnings: its kind and the values formatted
\* into it.
Warning(kind, a, b, n, m) == [kind |-> kind, a |-> a, b |-> b, n |-> n, m |-> m]

\* The names of self.locations, and a location's cores_required.
LocationNames(locs) == {locs[i].name : i \in DOMAIN locs}

CoresRequired(locs, name) ==
    LET i == CHOOSE j \in DOMAIN locs : locs[j].name = name
    IN  locs[i].cores_required

(***************************************************************************)
(* The part of the object's state that the recursive methods read and      *)
(* write, threaded through them as one record.                             *)
(***************************************************************************)
Heap(ls, pl, plocs, ws, exc) ==
    [links |-> ls, processed_links |-> pl, processed_locations |-> plocs,
     warnings |-> ws, raised |-> exc, expanded |-> <<>>]

\* A variant of _warning that puts the message at the front of the list.
PrependWarning(h, w) == [h EXCEPT !.warnings = <<w>> \o @]

\* self._warning(msg)
AddWarning(h, w) == [h EXCEPT !.warnings = Append(@, w)]

\* A variant of the swap that assigns from_location only.
SwappedOneEnd(link) ==
    [link EXCEPT !.from_location = link.to_location]

Swapped(link) ==
    [link EXCEPT !.from_location = link.to_location,
                 !.to_location = link.from_location]

(***************************************************************************)
(* order_links_from_location                                               *)
(***************************************************************************)
\* The first loop: every link that ends at the location and is not yet in
\* processed_links has its endpoints swapped.  An iteration reads and writes
\* its own link only, so the loop is a map over the list.
SwapIncomingProcessedToo(h, location) ==
    [h EXCEPT !.links =
        [i \in DOMAIN h.links |->
            IF h.links[i].to_location = location
            THEN Swapped(h.links[i])
            ELSE h.links[i]]]

SwapIncoming(h, location) ==
    [h EXCEPT !.links =
        [i \in DOMAIN h.links |->
            IF h.links[i].to_location = location /\ i \notin h.processed_links
            THEN Swapped(h.links[i])
            ELSE h.links[i]]]

RECURSIVE OrderLinksFromLocation(_, _, _)
RECURSIVE FollowOutgoing(_, _, _, _)

\* A variant of the second loop that does not add to processed_links.
FollowWithoutMarking(h, location, i, depth) ==
    IF i > Len(h.links) \/ h.raised # None
    THEN h
    ELSE IF h.links[i].from_location = location
         THEN FollowOutgoing(
                  OrderLinksFromLocation(h, h.links[i].to_location, depth + 1),
                  location, i + 1, depth)
         ELSE FollowOutgoing(h, location, i + 1, depth)

\* The second loop, from index i on: a link that now leaves the location is
\* marked processed and its far end is ordered, before the next link is
\* looked at in the state that call left behind.
FollowOutgoing(h, location, i, depth) ==
    IF i > Len(h.links) \/ h.raised # None
    THEN h
    ELSE IF h.links[i].from_location = location
         THEN FollowOutgoing(
                  OrderLinksFromLocation(
                      [h EXCEPT !.processed_links = @ \cup {i}],
                      h.links[i].to_location, depth + 1),
                  location, i + 1, depth)
         ELSE FollowOutgoing(h, location, i + 1, depth)

\* A variant without the guard on processed_locations.
OrderLinksUnguarded(h, location, depth) ==
    IF depth > RecursionLimit
    THEN [h EXCEPT !.raised = "RecursionError"]
    ELSE FollowOutgoing(
             SwapIncoming(
                 [h EXCEPT !.processed_locations = @ \cup {location},
                           !.expanded = Append(@, location)],
                 location),
             location, 1, depth)

OrderLinksFromLocation(h, location, depth) ==
    IF depth > RecursionLimit
    THEN [h EXCEPT !.raised = "RecursionError"]
    ELSE IF location \in h.processed_locations
         THEN AddWarning(h, Warning("CycleDetected", location, "", 0, 0))
         ELSE FollowOutgoing(
                  SwapIncoming(
                      [h EXCEPT !.processed_locations = @ \cup {location},
                                !.expanded = Append(@, location)],
                      location),
                  location, 1, depth)

(***************************************************************************)
(* _validate_child_link_cores: the heap it leaves and the value it returns *)
(***************************************************************************)
\* What an aggregated Fibre link adds to the cores of the location above it.
AggregatedChildCores == 0

CountsEveryFibre(link, location) ==
    link.type = Fibre

CountsCopperToo(link, location) ==
    link.from_location = location

\* Whether the loop of _validate_child_link_cores takes a link into account.
CountsTowardsCores(link, location) ==
    link.type = Fibre /\ link.from_location = location

CheckLinkCoresOrEqual(h, i, location, child_switch_cores) ==
    IF h.links[i].cores <= child_switch_cores
    THEN AddWarning(h, Warning("CapacityShortfall", location,
                               h.links[i].to_location, child_switch_cores,
                               h.links[i].cores))
    ELSE h

\* The check made on a link once its child's cores are known.
CheckLinkCores(h, i, location, child_switch_cores) ==
    IF h.links[i].cores < child_switch_cores
    THEN AddWarning(h, Warning("CapacityShortfall", location,
                               h.links[i].to_location, child_switch_cores,
                               h.links[i].cores))
    ELSE h

RECURSIVE ValidateChildLinkCores(_, _, _, _)
RECURSIVE ValidateLinks(_, _, _, _, _, _)

ValidateLinks(h, locs, location, i, cores, depth) ==
    IF i > Len(h.links) \/ h.raised # None
    THEN [heap |-> h, cores |-> cores]
    ELSE IF CountsTowardsCores(h.links[i], location)
         THEN IF h.links[i].aggregated
              THEN ValidateLinks(
                       CheckLinkCores(
                           [h EXCEPT !.links[i].cores_used = 1],
                           i, location, AggregatedChildCores),
                       locs, location, i + 1,
                       cores + AggregatedChildCores, depth)
              ELSE LET r == ValidateChildLinkCores(
                                h, locs, h.links[i].to_location, depth + 1)
                   IN  IF r.heap.raised # None
                       THEN [heap |-> r.heap, cores |-> cores]
                       ELSE ValidateLinks(
                                CheckLinkCores(
                                    [r.heap EXCEPT
                                        !.links[i].cores_used = r.cores],
                                    i, location, r.cores),
                                locs, location, i + 1, cores + r.cores, depth)
         ELSE ValidateLinks(h, locs, location, i + 1, cores, depth)

ValidateChildLinkCores(h, locs, location, depth) ==
    IF depth > RecursionLimit
    THEN [heap |-> [h EXCEPT !.raised = "RecursionError"], cores |-> 0]
    ELSE ValidateLinks(h, locs, location, 1,
                       CoresRequired(locs, location), depth)

(***************************************************************************)
(* _make_logical_link: the logical link it leaves, and whether it raised   *)
(***************************************************************************)
\* A variant that takes the first link of the list wherever it ends.
FirstLink(ls, location) ==
    IF Len(ls) > 0 THEN 1 ELSE 0

\* The index of the first link of the list that ends at the location, or 0.
Uplink(ls, location) ==
    IF \E i \in DOMAIN ls : ls[i].to_location = location
    THEN CHOOSE i \in DOMAIN ls :
             /\ ls[i].to_location = location
             /\ \A j \in 1..(i - 1) : ls[j].to_location # location
    ELSE 0

\* A variant without the test "logical_link.type is not None".
RefusesFirstLink(link, logical_link) ==
    link.type # logical_link.type

ExtendsToAnyMedium(link, logical_link) == FALSE

\* "We can't extend to a different medium"
CannotExtend(link, logical_link) ==
    logical_link.type # None /\ link.type # logical_link.type

TriesToExtendAggregated(link, logical_link) ==
    logical_link.type = Fibre

\* "If it's fibre, and the aggregated attribute isn't set, we try to extend"
TriesToExtend(link, logical_link) ==
    logical_link.type = Fibre /\ ~link.aggregated

RECURSIVE MakeLogicalLink(_, _, _, _)

MakeLogicalLink(ls, location, logical_link, depth) ==
    IF depth > RecursionLimit
    THEN [logical_link |-> logical_link, raised |-> "RecursionError"]
    ELSE LET i == Uplink(ls, location)
         IN  IF i = 0 \/ CannotExtend(ls[i], logical_link)
             THEN [logical_link |-> logical_link, raised |-> None]
             ELSE LET extended ==
                          [logical_link EXCEPT
                              !.from_location = ls[i].from_location,
                              !.type = ls[i].type,
                              !.physical_links = Append(@, i)]
                  IN  IF TriesToExtend(ls[i], extended)
                      THEN MakeLogicalLink(ls, ls[i].from_location, extended,
                                           depth + 1)
                      ELSE [logical_link |-> extended, raised |-> None]

(***************************************************************************)
(* Rows of the database.                                                   *)
(***************************************************************************)
\* A row of the location layer: its "switch" column (None when NULL), its
\* entityhandle and its cores_required.
PointRow(switch, entityhandle, cores_required) ==
    [switch |-> switch, entityhandle |-> entityhandle,
     cores_required |-> cores_required]

\* A row of a link layer: the names of the switches the query of
\* _find_location_from_link finds at its start and at its end, the type of
\* its layer, its "cores" column (0 when absent or empty) and whether its
\* "aggregated" column is set.
LineRow(start, end, type, cores, aggregated) ==
    [start |-> start, end |-> end, type |-> type, cores |-> cores,
     aggregated |-> aggregated]

(***************************************************************************)
(* get_locations and the loop of generate_plan that stores its result      *)
(***************************************************************************)
\* self.locations[switch.name] = switch: a name already present keeps its
\* place in the dict and gets the new value.
PutLocation(locs, loc) ==
    IF loc.name \in LocationNames(locs)
    THEN [i \in DOMAIN locs |-> IF locs[i].name = loc.name THEN loc ELSE locs[i]]
    ELSE Append(locs, loc)

RowName(row) == IF row.switch # None THEN row.switch ELSE row.entityhandle

RECURSIVE LoadLocations(_, _, _)

LoadLocations(rows, i, st) ==
    IF i > Len(rows)
    THEN st
    ELSE LoadLocations(rows, i + 1,
             [locations |-> PutLocation(st.locations,
                                Location(RowName(rows[i]),
                                         rows[i].cores_required)),
              warnings |-> IF rows[i].switch # None
                           THEN st.warnings
                           ELSE Append(st.warnings,
                                    Warning("MissingIdentifier",
                                            rows[i].entityhandle, "", 0, 0))])

GetLocations ==
    /\ raised = None
    /\ pc = "get_locations"
    /\ LET st == LoadLocations(db_points, 1,
                     [locations |-> locations, warnings |-> warnings])
       IN  /\ locations' = st.locations
           /\ warnings' = st.warnings
    /\ pc' = "get_links"
    /\ UNCHANGED <<inputs, expanded,
                   links, processed_links, processed_locations,
                   logical_links, root_switch, row_idx, switch_idx, raised>>

(***************************************************************************)
(* get_links, one row, and the append of generate_plan                     *)
(***************************************************************************)
\* A variant of _find_location_from_link that returns the first row when
\* the query returns several.
FindsFirstOfSeveral(found) ==
    IF Cardinality(found) >= 1 THEN CHOOSE name \in found : TRUE ELSE None

\* _find_location_from_link: the location found, or None.
FindLocationFromLink(found) ==
    IF Cardinality(found) = 1 THEN CHOOSE name \in found : TRUE ELSE None

\* The warnings _find_location_from_link records for one end of a row.
FindLocationWarnings(found, row, start_or_end) ==
    IF Cardinality(found) < 1
    THEN <<Warning("UnresolvedEndpoint", start_or_end, "none", row, 0)>>
    ELSE IF Cardinality(found) > 1
         THEN <<Warning("UnresolvedEndpoint", start_or_end, "multiple", row, 0)>>
         ELSE <<>>

GetLinks ==
    /\ raised = None
    /\ pc = "get_links"
    /\ row_idx <= Len(db_lines)
    /\ LET row == db_lines[row_idx]
           from_location == FindLocationFromLink(row.start)
           to_location == FindLocationFromLink(row.end)
           found == warnings
                        \o FindLocationWarnings(row.start, row_idx, "start")
                        \o FindLocationWarnings(row.end, row_idx, "end")
       IN  IF from_location = None \/ to_location = None
           THEN /\ warnings' = found
                /\ links' = links
           ELSE /\ warnings' =
                       IF row.cores # 0
                       THEN found
                       ELSE Append(found,
                                Warning("MissingCapacity", from_location,
                                        to_location, 0, 0))
                /\ links' = Append(links,
                                Link(from_location, to_location, row.type,
                                     IF row.cores # 0 THEN row.cores ELSE 1,
                                     row.aggregated))
    /\ row_idx' = row_idx + 1
    /\ UNCHANGED <<inputs, expanded,
                   pc, locations, processed_links, processed_locations,
                   logical_links, root_switch, switch_idx, raised>>

(***************************************************************************)
(* generate_plan after loading                                             *)
(***************************************************************************)
\* Lines 310-321: the root switch is the configured core when it names a
\* loaded location, else the first location of the dict (with a warning);
\* list(...)[0] raises IndexError when no location was loaded.
ChooseRoot ==
    /\ raised = None
    /\ pc = "get_links"
    /\ row_idx > Len(db_lines)
    /\ IF opts_core # None /\ opts_core \in LocationNames(locations)
       THEN /\ root_switch' = opts_core
            /\ warnings' = warnings
            /\ pc' = "order_links"
            /\ raised' = raised
       ELSE /\ warnings' = Append(warnings,
                               Warning("UnresolvedRoot", opts_core, "", 0, 0))
            /\ IF Len(locations) = 0
               THEN /\ raised' = "IndexError"
                    /\ pc' = pc
                    /\ root_switch' = root_switch
               ELSE /\ raised' = raised
                    /\ pc' = "order_links"
                    /\ root_switch' = locations[1].name
    /\ processed_locations' = {}
    /\ processed_links' = {}
    /\ UNCHANGED <<inputs, expanded,
                   locations, links, logical_links, row_idx, switch_idx>>

\* Line 322
OrderLinks ==
    /\ raised = None
    /\ pc = "order_links"
    /\ LET h == OrderLinksFromLocation(
                    Heap(links, processed_links, processed_locations,
                         warnings, None),
                    root_switch, 1)
       IN  /\ links' = h.links
           /\ processed_links' = h.processed_links
           /\ processed_locations' = h.processed_locations
           /\ warnings' = h.warnings
           /\ raised' = h.raised
           /\ expanded' = h.expanded
           /\ pc' = IF h.raised = None THEN "validate" ELSE pc
    /\ UNCHANGED <<inputs, locations, logical_links, root_switch, row_idx,
                   switch_idx>>

\* Line 327
ValidateCores ==
    /\ raised = None
    /\ pc = "validate"
    /\ LET r == ValidateChildLinkCores(
                    Heap(links, processed_links, processed_locations,
                         warnings, None),
                    locations, root_switch, 1)
       IN  /\ links' = r.heap.links
           /\ warnings' = r.heap.warnings
           /\ raised' = r.heap.raised
           /\ pc' = IF r.heap.raised = None THEN "logical_links" ELSE pc
    /\ switch_idx' = 1
    /\ UNCHANGED <<inputs, expanded,
                   locations, processed_links, processed_locations,
                   logical_links, root_switch, row_idx>>

\* Lines 347-355, one iteration of the loop over self.locations.values()
MakeLogicalLinks ==
    /\ raised = None
    /\ pc = "logical_links"
    /\ switch_idx <= Len(locations)
    /\ LET switch == locations[switch_idx].name
           r == MakeLogicalLink(links, switch,
                                LogicalLink(None, switch, None), 1)
       IN  IF switch = root_switch
           THEN UNCHANGED <<logical_links, warnings, raised>>
           ELSE IF r.raised # None
                THEN /\ raised' = r.raised
                     /\ UNCHANGED <<logical_links, warnings>>
                ELSE /\ raised' = raised
                     /\ IF r.logical_link.type = None
                        THEN /\ warnings' = Append(warnings,
                                    Warning("UntraceableLogicalLink",
                                            switch, "", 0, 0))
                             /\ logical_links' = logical_links
                        ELSE /\ warnings' = warnings
                             /\ logical_links' =
                                    Append(logical_links, r.logical_link)
    /\ switch_idx' = switch_idx + 1
    /\ UNCHANGED <<inputs, expanded, pc, locations, links, processed_links,
                   processed_locations, root_switch, row_idx>>

\* Line 357
Return ==
    /\ raised = None
    /\ pc = "logical_links"
    /\ switch_idx > Len(locations)
    /\ pc' = "done"
    /\ UNCHANGED <<inputs, expanded, locations, links, processed_links,
                   processed_locations, logical_links, warnings, root_switch,
                   row_idx, switch_idx, raised>>

Next ==
    \/ GetLocations
    \/ GetLinks
    \/ ChooseRoot
    \/ OrderLinks
    \/ ValidateCores
    \/ MakeLogicalLinks
    \/ Return

(***************************************************************************)
(* The state after __init__, for given contents of the database and a      *)
(* given configuration.                                                    *)
(***************************************************************************)
Constructed ==
    /\ pc = "get_locations"
    /\ locations = <<>>
    /\ links = <<>>
    /\ processed_links = {}
    /\ processed_locations = {}
    /\ logical_links = <<>>
    /\ warnings = <<>>
    /\ root_switch = None
    /\ row_idx = 1
    /\ switch_idx = 1
    /\ raised = None
    /\ expanded = <<>>

\* The three kinds of link the methods tell apart: Copper, Fibre, and Fibre
\* with the aggregated column set.
LinkKinds == {<<Copper, FALSE>>, <<Fibre, FALSE>>, <<Fibre, TRUE>>}

SeqsUpTo(S, n) == UNION {[1..k -> S] : k \in 0..n}

NamedPoints(n, cores_required) ==
    [i \in 1..n |-> PointRow(LocNames[i], LocNames[i], cores_required[i])]

\* Every list of at most MaxLinks links between NumLocations locations, each
\* end resolved to one location: self-links, parallel links, cycles and links
\* apart from the core included.
GeneralRows ==
    {LineRow({a}, {b}, k[1], 1, k[2]) :
        a \in Names(NumLocations), b \in Names(NumLocations), k \in LinkKinds}

Init ==
    /\ db_points = NamedPoints(NumLocations, [i \in 1..NumLocations |-> 1])
    /\ db_lines \in SeqsUpTo(GeneralRows, MaxLinks)
    /\ opts_core \in Names(NumLocations) \cup {None}
    /\ Constructed

Spec == Init /\ [][Next]_vars

(***************************************************************************)
(* The graph of the links, for the statements below.                       *)
(***************************************************************************)
Ends(link) == {link.from_location, link.to_location}

RECURSIVE Reach(_, _)

\* The locations joined to a location of S by a chain of links, whatever
\* the direction of each link.
Reach(ls, S) ==
    LET T == S \cup UNION {Ends(ls[i]) : i \in {j \in DOMAIN ls : Ends(ls[j]) \cap S # {}}}
    IN  IF T = S THEN S ELSE Reach(ls, T)

ConnectedLocations == Reach(links, {root_switch})

\* The links connected to the root.
ConnectedLinks == {i \in DOMAIN links : links[i].from_location \in ConnectedLocations}

RECURSIVE Ball(_, _, _)

\* The locations at most d links away from the root.
Ball(ls, root, d) ==
    IF d = 0
    THEN {root}
    ELSE LET B == Ball(ls, root, d - 1)
         IN  B \cup UNION {Ends(ls[i]) : i \in {j \in DOMAIN ls : Ends(ls[j]) \cap B # {}}}

\* The number of links on the shortest path from the root to a location
\* connected to it.
Distance(ls, root, name) ==
    CHOOSE d \in 0..Len(ls) :
        /\ name \in Ball(ls, root, d)
        /\ \A e \in 0..(d - 1) : name \notin Ball(ls, root, e)

\* The links connected to the root form a tree: they are one fewer than the
\* locations they join (no link from a location to itself, no two links
\* between the same two locations, no cycle).
ConnectedIsTree == Cardinality(ConnectedLinks) = Cardinality(ConnectedLocations) - 1

\* order_links_from_location(root_switch) has returned.
Oriented == pc \in {"validate", "logical_links", "done"}

\* _validate_child_link_cores(root_switch) has returned.
Validated == pc \in {"logical_links", "done"}

\* generate_plan has returned.
Done == pc = "done"

PointsAway(link) ==
    Distance(links, root_switch, link.from_location)
        < Distance(links, root_switch, link.to_location)

\* The link was loaded from its row with the ends the other way round.
Reversed(i) == db_lines[i].start = {links[i].to_location}

\* C1 (as stated): after orientation every link connected to the root has its
\* from_location strictly closer to the root than its to_location, whether
\* or not the links contain a cycle.
C1_OrientationInvariant ==
    Oriented => \A i \in ConnectedLinks : PointsAway(links[i])

\* C1 (amended): after orientation, when the links connected to the root form
\* a tree, every link connected to the root has its from_location strictly
\* closer to the root than its to_location.
C1_OrientationInvariantOnTrees ==
    (Oriented /\ ConnectedIsTree) => \A i \in ConnectedLinks : PointsAway(links[i])

\* A chain of two links below the root, the lower one captured towards the
\* root and turned round by orientation.
C1_Witness ==
    /\ Oriented
    /\ ConnectedIsTree
    /\ \E i \in ConnectedLinks :
        /\ Distance(links, root_switch, links[i].to_location) = 2
        /\ Reversed(i)

\* C4: for every set of locations and links the validation started by
\* generate_plan returns, so that generate_plan goes on to coalescing: no
\* exception leaves _validate_child_link_cores(root_switch), also when
\* orientation recorded a CycleDetected warning.
C4_ValidationReturns == pc = "validate" => raised = None

\* C5: for every non-root location and every link list left by orientation
\* _make_logical_link returns: no exception leaves it, also for links on a
\* cycle and for links never reached from the root.
C5_MakeLogicalLinkReturns == pc = "logical_links" => raised = None

(***************************************************************************)
(* Other contents of the database: the scenarios of the statements below.  *)
(***************************************************************************)
Range(f) == {f[i] : i \in DOMAIN f}

\* The orders in which the members of a set can come.
Perms(S) ==
    {f \in [1..Cardinality(S) -> S] : \A i, j \in DOMAIN f : i # j => f[i] # f[j]}

\* A cable between a and b, drawn from a to b or from b to a.
BothWays(a, b, type, cores, aggregated) ==
    {LineRow({a}, {b}, type, cores, aggregated),
     LineRow({b}, {a}, type, cores, aggregated)}

\* The link rows of a set of cables (each a set of the two rows it can be
\* drawn as): in any order, each cable drawn either way.
CapturedLines(cables) ==
    {[i \in DOMAIN p |-> d[p[i]]] :
        p \in Perms(cables), d \in [cables -> UNION cables] \cap
                                  {e \in [cables -> UNION cables] :
                                      \A c \in cables : e[c] \in c}}

\* The location rows of a set of names, in any order.
CapturedPoints(names, cores_required) ==
    {[i \in DOMAIN p |-> PointRow(p[i], p[i], cores_required[p[i]])] :
        p \in Perms(names)}

\* The concrete scenario: Core, A, B, C with cores_required 1, Fibre cables
\* Core-A (2 cores), A-B (1 core, aggregated), A-C (1 core).
ScenarioNames == {"Core", "A", "B", "C"}

ScenarioCables ==
    {BothWays("Core", "A", Fibre, 2, FALSE),
     BothWays("A", "B", Fibre, 1, TRUE),
     BothWays("A", "C", Fibre, 1, FALSE)}

InitScenario ==
    /\ db_points \in CapturedPoints(ScenarioNames, [n \in ScenarioNames |-> 1])
    /\ db_lines \in CapturedLines(ScenarioCables)
    /\ opts_core = "Core"
    /\ Constructed

SpecScenario == InitScenario /\ [][Next]_vars

\* The index of the link from a to b.
LinkFromTo(a, b) ==
    CHOOSE i \in DOMAIN links :
        links[i].from_location = a /\ links[i].to_location = b

HasLinkFromTo(a, b) ==
    \E i \in DOMAIN links : links[i].from_location = a /\ links[i].to_location = b

WarningsOfKind(kind) == {i \in DOMAIN warnings : warnings[i].kind = kind}

LogicalLinksTo(name) ==
    {i \in DOMAIN logical_links : logical_links[i].to_location = name}

C8_ScenarioLogicalLinks ==
    Done =>
        /\ \E i \in LogicalLinksTo("B") :
            /\ LogicalLinksTo("B") = {i}
            /\ logical_links[i].from_location = "A"
            /\ logical_links[i].physical_links = <<LinkFromTo("A", "B")>>
        /\ \E i \in LogicalLinksTo("C") :
            /\ LogicalLinksTo("C") = {i}
            /\ logical_links[i].from_location = "Core"
            /\ logical_links[i].physical_links =
                   <<LinkFromTo("A", "C"), LinkFromTo("Core", "A")>>

\* generate_plan has returned in the scenario with a logical link for each
\* of A, B and C, the cable between A and B having been captured from B to A.
C8_Witness ==
    /\ Done
    /\ Len(logical_links) = 3
    /\ \E i \in DOMAIN links : links[i].to_location = "B" /\ Reversed(i)

(***************************************************************************)
(* Trees: Core with A, B and C below it in every shape, each cable Copper, *)
(* Fibre or aggregated Fibre, the cables all drawn away from the core or   *)
(* all drawn towards it, each location with its own cores_required.        *)
(***************************************************************************)
TreeChildren == <<"A", "B", "C">>

RECURSIVE Ancestors(_, _, _)

\* The locations above a location when parent gives each child its parent,
\* followed for at most n steps.
Ancestors(parent, name, n) ==
    IF n = 0 \/ name \notin DOMAIN parent
    THEN {}
    ELSE {parent[name]} \cup Ancestors(parent, parent[name], n - 1)

TreeParents ==
    {parent \in [Range(TreeChildren) -> ScenarioNames] :
        \A c \in Range(TreeChildren) :
            "Core" \in Ancestors(parent, c, Len(TreeChildren))}

TreeLines ==
    {[i \in DOMAIN TreeChildren |->
        IF away
        THEN LineRow({parent[TreeChildren[i]]}, {TreeChildren[i]},
                     kind[i][1], 1, kind[i][2])
        ELSE LineRow({TreeChildren[i]}, {parent[TreeChildren[i]]},
                     kind[i][1], 1, kind[i][2])] :
        parent \in TreeParents,
        away \in BOOLEAN,
        kind \in [DOMAIN TreeChildren -> LinkKinds]}

InitTree ==
    /\ \E cores_required \in [ScenarioNames -> 1..MaxCoresRequired] :
        db_points = [i \in 1..Cardinality(ScenarioNames) |->
                        PointRow(LocNames[i], LocNames[i],
                                 cores_required[LocNames[i]])]
    /\ db_lines \in TreeLines
    /\ opts_core = "Core"
    /\ Constructed

SpecTree == InitTree /\ [][Next]_vars

RECURSIVE SumOver(_, _)

\* The sum of f[x] over the members x of S.
SumOver(S, f) ==
    IF S = {}
    THEN 0
    ELSE LET x == CHOOSE y \in S : TRUE
         IN  f[x] + SumOver(S \ {x}, f)

\* The value _validate_child_link_cores(location) returns on the links as
\* they are.
RequiredCores(name) ==
    ValidateChildLinkCores(
        Heap(links, processed_links, processed_locations, warnings, None),
        locations, name, 1).cores

LinksLeaving(name, type, aggregated) ==
    {i \in DOMAIN links :
        /\ links[i].from_location = name
        /\ links[i].type = type
        /\ links[i].aggregated = aggregated}

ChildrenRequiredCores(name) ==
    SumOver(LinksLeaving(name, Fibre, FALSE),
            [i \in DOMAIN links |-> RequiredCores(links[i].to_location)])

CycleNames == {"A", "B", "C"}

CycleCables ==
    {{BothWays("A", "B", k[1][1], 1, k[1][2]),
      BothWays("B", "C", k[2][1], 1, k[2][2]),
      BothWays("C", "A", k[3][1], 1, k[3][2])} :
        k \in [1..3 -> LinkKinds]}

InitCycle ==
    /\ db_points \in CapturedPoints(CycleNames, [n \in CycleNames |-> 1])
    /\ db_lines \in UNION {CapturedLines(cables) : cables \in CycleCables}
    /\ opts_core = "A"
    /\ Constructed

SpecCycle == InitCycle /\ [][Next]_vars

\* C6: for A, B, C joined into one cycle by three links, orientation from
\* root A records exactly one CycleDetected warning, whatever the captured
\* direction and the insertion order of the links.
C6_OneCycleWarning ==
    Oriented => Cardinality(WarningsOfKind("CycleDetected")) = 1

\* Orientation has returned on the cycle, having turned round the link
\* captured from B to A and marked all three links processed.
C6_Witness ==
    /\ pc = "validate"
    /\ processed_links = DOMAIN links
    /\ Len(links) = 3
    /\ \E i \in DOMAIN links :
        links[i].from_location = "A" /\ links[i].to_location = "B" /\ Reversed(i)

(***************************************************************************)
(* The chain Leaf - X1 - X2 - X3 - Root with cables Fibre, Fibre, Copper,  *)
(* Fibre from the leaf to the root, none aggregated, drawn either way, in  *)
(* any order.                                                              *)
(***************************************************************************)
ChainNames == {"Leaf", "X1", "X2", "X3", "Root"}

ChainCables ==
    {BothWays("Leaf", "X1", Fibre, 1, FALSE),
     BothWays("X1", "X2", Fibre, 1, FALSE),
     BothWays("X2", "X3", Copper, 1, FALSE),
     BothWays("X3", "Root", Fibre, 1, FALSE)}

InitChain ==
    /\ db_points \in CapturedPoints(ChainNames, [n \in ChainNames |-> 1])
    /\ db_lines \in CapturedLines(ChainCables)
    /\ opts_core = "Root"
    /\ Constructed

SpecChain == InitChain /\ [][Next]_vars

\* The logical links as (from_location, to_location, type, number of
\* physical links).
LogicalLinkShapes ==
    {<<logical_links[i].from_location, logical_links[i].to_location,
       logical_links[i].type, Len(logical_links[i].physical_links)>> :
        i \in DOMAIN logical_links}

PhysicalTypes(logical_link) ==
    {links[logical_link.physical_links[j]].type :
        j \in DOMAIN logical_link.physical_links}

OneMedium ==
    \A i \in DOMAIN logical_links :
        PhysicalTypes(logical_links[i]) = {logical_links[i].type}

OrientedTree ==
    /\ Oriented
    /\ ConnectedIsTree
    /\ ConnectedLinks = DOMAIN links

PhysicalLink(logical_link, j) == links[logical_link.physical_links[j]]

\* C9 (as stated): on an oriented tree, every logical link whose
\* physical_links contain a Copper link or an aggregated Fibre link consists
\* of exactly one physical link.
C9_CopperOrAggregatedAlone ==
    OrientedTree =>
        \A i \in DOMAIN logical_links :
            (\E j \in DOMAIN logical_links[i].physical_links :
                \/ PhysicalLink(logical_links[i], j).type = Copper
                \/ PhysicalLink(logical_links[i], j).aggregated)
            => Len(logical_links[i].physical_links) = 1

\* C9 (amended): on an oriented tree, every logical link whose physical_links
\* contain a Copper link consists of exactly one physical link, and an
\* aggregated Fibre link is always the last (topmost) physical link of the
\* logical link that contains it: it may follow non-aggregated Fibre links.
C9_CopperAloneAggregatedLast ==
    OrientedTree =>
        \A i \in DOMAIN logical_links :
            \A j \in DOMAIN logical_links[i].physical_links :
                /\ PhysicalLink(logical_links[i], j).type = Copper
                       => Len(logical_links[i].physical_links) = 1
                /\ (PhysicalLink(logical_links[i], j).type = Fibre
                        /\ PhysicalLink(logical_links[i], j).aggregated)
                       => j = Len(logical_links[i].physical_links)

\* Coalescing on an oriented tree has produced a logical link of one Copper
\* link and a logical link of two Fibre links, the upper one aggregated.
C9_Witness ==
    /\ OrientedTree
    /\ \E i \in DOMAIN logical_links :
        /\ Len(logical_links[i].physical_links) = 1
        /\ PhysicalLink(logical_links[i], 1).type = Copper
    /\ \E i \in DOMAIN logical_links :
        /\ Len(logical_links[i].physical_links) = 2
        /\ PhysicalLink(logical_links[i], 2).aggregated

\* The link list holds the link loaded from every row, between the two
\* locations of the row.
LinksKept ==
    /\ Len(links) = Len(db_lines)
    /\ \A i \in DOMAIN links : Ends(links[i]) = db_lines[i].start \cup db_lines[i].end

\* C10 (as stated): links not connected to the root are left out of the
\* stages after orientation but kept in the link list: no logical link has
\* such a link among its physical_links or an endpoint not connected to the
\* root, validation never assigns cores_used to such a link, and the link
\* list still holds every such link.
C10_UnconnectedExcluded ==
    Oriented =>
        /\ \A i \in DOMAIN logical_links :
            /\ Range(logical_links[i].physical_links) \subseteq ConnectedLinks
            /\ logical_links[i].from_location \in ConnectedLocations
            /\ logical_links[i].to_location \in ConnectedLocations
        /\ \A i \in DOMAIN links \ ConnectedLinks : links[i].cores_used = 0
        /\ LinksKept

\* C10 (amended): links not connected to the root are kept in the link list
\* and validation never assigns cores_used to them, but coalescing does use
\* them: the physical_links and from_location of a logical link are
\* connected to the root exactly when its to_location is, and once
\* generate_plan has returned every location not connected to the root that
\* is the to_location of a link has a logical link.
C10_UnconnectedKeptAndCoalesced ==
    Oriented =>
        /\ \A i \in DOMAIN logical_links :
            /\ \A j \in Range(logical_links[i].physical_links) :
                j \in ConnectedLinks
                    <=> logical_links[i].to_location \in ConnectedLocations
            /\ logical_links[i].from_location \in ConnectedLocations
                    <=> logical_links[i].to_location \in ConnectedLocations
        /\ \A i \in DOMAIN links \ ConnectedLinks : links[i].cores_used = 0
        /\ LinksKept
        /\ Done =>
            \A name \in LocationNames(locations) \ ConnectedLocations :
                Uplink(links, name) # 0 => LogicalLinksTo(name) # {}

\* generate_plan has returned with a logical link made of a Fibre link not
\* connected to the root, beside a Fibre link connected to the root that
\* validation has been over.
C10_Witness ==
    /\ Done
    /\ \E i \in DOMAIN logical_links :
        /\ logical_links[i].to_location \notin ConnectedLocations
        /\ PhysicalLink(logical_links[i], 1).type = Fibre
    /\ \E i \in ConnectedLinks : links[i].cores_used > 0

\* What order_links_from_location(root_switch) leaves when it is run on the
\* links as they are, with processed_locations and processed_links reset.
OrientedAgain ==
    OrderLinksFromLocation(Heap(links, {}, {}, warnings, None), root_switch, 1)

\* C11: when the links connected to the root form a tree that orientation
\* has oriented, running order_links_from_location(root_switch) again, with
\* processed_locations and processed_links reset, swaps the endpoints of no
\* link and records no warning.
C11_OrientationIdempotent ==
    (Oriented /\ ConnectedIsTree) =>
        /\ OrientedAgain.links = links
        /\ OrientedAgain.warnings = warnings
        /\ OrientedAgain.raised = None

\* Orientation has turned round a link two links below the root of a tree
\* and marked both links processed.
C11_Witness ==
    /\ Oriented
    /\ ConnectedIsTree
    /\ Cardinality(processed_links) >= 2
    /\ \E i \in processed_links :
        /\ Distance(links, root_switch, links[i].to_location) = 2
        /\ Reversed(i)

(***************************************************************************)
(* The loader: up to MaxRows line features whose start and end points      *)
(* match none, one or both of the loaded locations, over a location layer  *)
(* of none, one or two points, with or without the "switch" column set.    *)
(***************************************************************************)
MaxRows == 2

LoaderNames == <<"Core", "A">>

\* The rows of the location layer: the first n names, all with or all
\* without a switch name, each requiring MaxCoresRequired cores.
LoaderPoints(n, named) ==
    [i \in 1..n |-> PointRow(IF named THEN LoaderNames[i] ELSE None,
                             LoaderNames[i], MaxCoresRequired)]

\* The Fibre rows of the link layer over the first n names: each end matches
\* any subset of the points, and the "cores" column is absent (0) or 1.
LoaderRows(n) ==
    {LineRow(start, end, Fibre, cores, FALSE) :
        start \in SUBSET {LoaderNames[i] : i \in 1..n},
        end \in SUBSET {LoaderNames[i] : i \in 1..n},
        cores \in 0..1}

InitLoader ==
    /\ \E n \in 0..Len(LoaderNames), named \in BOOLEAN :
        /\ db_points = LoaderPoints(n, named)
        /\ db_lines \in SeqsUpTo(LoaderRows(n), MaxRows)
        /\ opts_core \in {LoaderNames[i] : i \in 1..n} \cup {None}
    /\ Constructed

SpecLoader == InitLoader /\ [][Next]_vars

\* The rows get_links has read so far.
RowsRead == 1..(row_idx - 1)

Resolves(found) == Cardinality(found) = 1

BothResolve(r) == Resolves(db_lines[r].start) /\ Resolves(db_lines[r].end)

\* The number of ends of row r that do not resolve to exactly one location.
UnresolvedEnds(r) ==
    (IF Resolves(db_lines[r].start) THEN 0 ELSE 1)
        + (IF Resolves(db_lines[r].end) THEN 0 ELSE 1)

\* The number of UnresolvedEndpoint warnings recorded for row r.
EndpointWarnings(r) ==
    Cardinality({w \in DOMAIN warnings :
                    /\ warnings[w].kind = "UnresolvedEndpoint"
                    /\ warnings[w].n = r})

\* The rows read so far of which both ends resolve, in the order read.
ResolvedRows ==
    SelectSeq([r \in 1..(row_idx - 1) |-> r], LAMBDA r : BothResolve(r))

\* The links are those of the rows of which both ends resolve, one link a
\* row, in the order of the rows.
OneLinkPerResolvedRow ==
    /\ Len(links) = Len(ResolvedRows)
    /\ \A k \in DOMAIN links :
        Ends(links[k]) = db_lines[ResolvedRows[k]].start
                             \cup db_lines[ResolvedRows[k]].end

\* C12 as stated: a row of which an end resolves to no location or to
\* several adds no link and has exactly one UnresolvedEndpoint warning; a row
\* of which both ends resolve adds exactly one link.
C12_OneWarningPerDroppedRow ==
    /\ OneLinkPerResolvedRow
    /\ \A r \in RowsRead :
        EndpointWarnings(r) = IF BothResolve(r) THEN 0 ELSE 1

\* C12, amended: a row of which an end resolves to no location or to several
\* adds no link and has one UnresolvedEndpoint warning for each such end (one
\* or two); a row of which both ends resolve adds exactly one link and has
\* no such warning.
C12_OneWarningPerUnresolvedEnd ==
    /\ OneLinkPerResolvedRow
    /\ \A r \in RowsRead : EndpointWarnings(r) = UnresolvedEnds(r)

\* get_links has read a row neither end of which resolves, which left two
\* warnings and no link, and a row both ends of which resolve, which left
\* one link.
C12_Witness ==
    /\ row_idx > Len(db_lines)
    /\ \E r \in RowsRead :
        /\ UnresolvedEnds(r) = 2
        /\ EndpointWarnings(r) = 2
    /\ \E r \in RowsRead : BothResolve(r)
    /\ Len(links) = 1

\* The locations other than the root, and those of them at which at least
\* one link ends.
NonRoot == LocationNames(locations) \ {root_switch}

HasUplink(name) == \E i \in DOMAIN links : links[i].to_location = name

UntraceableWarnings(name) ==
    {w \in WarningsOfKind("UntraceableLogicalLink") : warnings[w].a = name}

\* C13: after coalescing no logical link ends at the root; every other
\* location at which a link ends has exactly one logical link ending at it;
\* every other location at which no link ends has no logical link and
\* exactly one UntraceableLogicalLink warning naming it.
C13_OneLogicalLinkPerUplinkedLocation ==
    Done =>
        /\ LogicalLinksTo(root_switch) = {}
        /\ \A name \in NonRoot :
            IF HasUplink(name)
            THEN /\ Cardinality(LogicalLinksTo(name)) = 1
                 /\ UntraceableWarnings(name) = {}
            ELSE /\ LogicalLinksTo(name) = {}
                 /\ Cardinality(UntraceableWarnings(name)) = 1

\* Coalescing has finished where two links end at one location, which has
\* one logical link, a link ends at the root, which has none, and no link
\* ends at another location, which has its warning.
C13_Witness ==
    /\ Done
    /\ HasUplink(root_switch)
    /\ \E name \in NonRoot :
        /\ Cardinality({i \in DOMAIN links : links[i].to_location = name}) = 2
        /\ Cardinality(LogicalLinksTo(name)) = 1
    /\ \E name \in NonRoot :
        /\ ~HasUplink(name)
        /\ Cardinality(UntraceableWarnings(name)) = 1

\* The configured core names a loaded location.
CoreResolves == opts_core # None /\ opts_core \in LocationNames(locations)

RootChosen == pc \in {"order_links", "validate", "logical_links", "done"}

\* C14: whatever locations are loaded, generate_plan raises nothing; once
\* the root is chosen it is the configured core, with no UnresolvedRoot
\* warning, when the core names a loaded location, and else it is one of the
\* loaded locations, with exactly one UnresolvedRoot warning.
C14_FallbackRootReturns ==
    /\ raised = None
    /\ RootChosen =>
        IF CoreResolves
        THEN /\ root_switch = opts_core
             /\ WarningsOfKind("UnresolvedRoot") = {}
        ELSE /\ root_switch \in LocationNames(locations)
             /\ Cardinality(WarningsOfKind("UnresolvedRoot")) = 1

\* The part of C14 that does not depend on a run finishing: the root chosen
\* and the warning recorded for it.
C14_RootAndWarning ==
    RootChosen =>
        IF CoreResolves
        THEN /\ root_switch = opts_core
             /\ WarningsOfKind("UnresolvedRoot") = {}
        ELSE /\ root_switch = locations[1].name
             /\ Cardinality(WarningsOfKind("UnresolvedRoot")) = 1

IsPrefix(s, t) == Len(s) <= Len(t) /\ SubSeq(t, 1, Len(s)) = s

\* C15: every step of a planning run (loading locations, loading a row of
\* links, choosing the root, orientation, validation, coalescing a switch,
\* returning) leaves the warnings it found as a prefix of the warnings it
\* leaves: none is removed, changed or reordered, and new ones come last.
C15_WarningsAppendOnly == [][IsPrefix(warnings, warnings')]_vars

\* The position of the first warning of a kind, or 0.
FirstWarning(kind) ==
    IF WarningsOfKind(kind) = {}
    THEN 0
    ELSE CHOOSE w \in WarningsOfKind(kind) :
             \A v \in WarningsOfKind(kind) : w <= v

\* A run has returned with warnings of loading locations, of loading links,
\* of the choice of root and of validation, in the order of these stages.
C15_Witness ==
    /\ Done
    /\ 0 < FirstWarning("MissingIdentifier")
    /\ FirstWarning("MissingIdentifier") < FirstWarning("MissingCapacity")
    /\ FirstWarning("MissingCapacity") < FirstWarning("UnresolvedRoot")
    /\ FirstWarning("UnresolvedRoot") < FirstWarning("CapacityShortfall")

\* No location occurs twice in the history of expansions.
ExpandedOnce ==
    \A i, j \in DOMAIN expanded : expanded[i] = expanded[j] => i = j

\* C16: order_links_from_location(root_switch) returns, without exhausting
\* the call stack, for every list of links (cycles, parallel links and
\* self-links included), and it goes past its guard, to swap and follow the
\* links of a location, at most once for each location.
C16_OrientationTerminates ==
    /\ pc = "order_links" => raised = None
    /\ ExpandedOnce
    /\ Oriented => {expanded[i] : i \in DOMAIN expanded} = processed_locations

\* Orientation has returned on links with a self-link and two parallel
\* links, after it expanded both locations and recorded cycle warnings.
C16_Witness ==
    /\ Oriented
    /\ Len(expanded) >= 2
    /\ \E i \in DOMAIN links : links[i].from_location = links[i].to_location
    /\ \E i, j \in DOMAIN links :
        /\ i # j
        /\ Ends(links[i]) = Ends(links[j])
        /\ Cardinality(Ends(links[i])) = 2
    /\ Cardinality(WarningsOfKind("CycleDetected")) >= 2

\* The warning of _validate_child_link_cores for a link, if it is recorded.
ShortfallWarnings(i) ==
    {w \in WarningsOfKind("CapacityShortfall") :
        /\ warnings[w].a = links[i].from_location
        /\ warnings[w].b = links[i].to_location}

\* C17: after validation on an oriented tree every Fibre link connected to
\* the root has cores_used assigned, and has a CapacityShortfall warning
\* when the demand assigned to it exceeds its cores; Fibre links below a
\* Copper link or below an aggregated Fibre link included.
C17_EveryFibreLinkChecked ==
    (Validated /\ ConnectedIsTree) =>
        \A i \in ConnectedLinks :
            links[i].type = Fibre =>
                /\ links[i].cores_used # 0
                /\ links[i].cores < links[i].cores_used
                       => ShortfallWarnings(i) # {}

\* C18: every logical link in logical_links has at least one physical link,
\* and each of its physical links has the type of the logical link, so that
\* no logical link holds a Copper link and a Fibre link.
C18_PhysicalLinksOfOneType ==
    \A i \in DOMAIN logical_links :
        /\ Len(logical_links[i].physical_links) >= 1
        /\ \A j \in DOMAIN logical_links[i].physical_links :
            PhysicalLink(logical_links[i], j).type = logical_links[i].type

\* Coalescing has stopped a Fibre logical link at a location whose uplink is
\* Copper, and a Copper logical link at a location whose uplink is Fibre.
C18_Witness ==
    /\ Done
    /\ \E i \in DOMAIN logical_links :
        /\ logical_links[i].type = Fibre
        /\ HasUplink(logical_links[i].from_location)
        /\ links[Uplink(links, logical_links[i].from_location)].type = Copper
        /\ ~links[logical_links[i].physical_links[
                      Len(logical_links[i].physical_links)]].aggregated
    /\ \E i \in DOMAIN logical_links :
        /\ logical_links[i].type = Copper
        /\ HasUplink(logical_links[i].from_location)
        /\ links[Uplink(links, logical_links[i].from_location)].type = Fibre

\* What a step leaves of a link apart from its direction: the two ends as a
\* set, type, cores and aggregated.
Undirected(link) ==
    [ends |-> Ends(link), type |-> link.type, cores |-> link.cores,
     aggregated |-> link.aggregated]

\* C19: the step of orientation leaves the link list with the same length
\* and order, every link with the same two ends, type, cores and aggregated
\* flag, and the locations as they were; the steps of validation and of
\* coalescing leave from_location and to_location of every link unchanged.
C19_OrientationChangesDirectionOnly ==
    [][/\ pc = "order_links" =>
            /\ Len(links') = Len(links)
            /\ \A i \in DOMAIN links :
                Undirected(links'[i]) = Undirected(links[i])
            /\ locations' = locations
       /\ pc \in {"validate", "logical_links"} =>
            /\ Len(links') = Len(links)
            /\ \A i \in DOMAIN links :
                /\ links'[i].from_location = links[i].from_location
                /\ links'[i].to_location = links[i].to_location]_vars

\* A run has returned in which orientation turned one link round and left
\* another as it was loaded, and validation assigned cores_used to a link.
C19_Witness ==
    /\ Done
    /\ \E i \in DOMAIN links :
        /\ links[i].from_location # links[i].to_location
        /\ Reversed(i)
    /\ \E i \in DOMAIN links :
        /\ links[i].from_location # links[i].to_location
        /\ ~Reversed(i)
    /\ \E i \in DOMAIN links : links[i].cores_used # 0

\* C20: every logical link in logical_links is a contiguous upward path:
\* its first physical link ends at the logical link's to_location, each
\* following physical link ends where the one before it starts, and its last
\* physical link starts at the logical link's from_location.
C20_ContiguousUpwardPath ==
    \A i \in DOMAIN logical_links :
        LET logical_link == logical_links[i]
            n == Len(logical_link.physical_links)
        IN  /\ n >= 1
            /\ PhysicalLink(logical_link, 1).to_location
                   = logical_link.to_location
            /\ \A j \in 2..n :
                PhysicalLink(logical_link, j).to_location
                    = PhysicalLink(logical_link, j - 1).from_location
            /\ PhysicalLink(logical_link, n).from_location
                   = logical_link.from_location

\* A run has returned with a logical link of two physical links, from the
\* root to a location two links below it, and a logical link of one.
C20_Witness ==
    /\ Done
    /\ \E i \in DOMAIN logical_links :
        /\ Len(logical_links[i].physical_links) = 2
        /\ logical_links[i].from_location = root_switch
        /\ Distance(links, root_switch, logical_links[i].to_location) = 2
    /\ \E i \in DOMAIN logical_links :
        Len(logical_links[i].physical_links) = 1

\* The link has the ends its row was loaded with, the same way round.
AsLoaded(i) ==
    /\ db_lines[i].start = {links[i].from_location}
    /\ db_lines[i].end = {links[i].to_location}

\* C21: after order_links_from_location(root_switch) returns,
\* processed_locations holds exactly the locations connected to the root by
\* links, whatever their direction, processed_links holds exactly the links
\* connected to the root, and every link not connected to the root has the
\* from_location and to_location it was loaded with.
C21_ProcessedIsConnected ==
    Oriented =>
        /\ processed_locations = ConnectedLocations
        /\ processed_links = ConnectedLinks
        /\ \A i \in DOMAIN links \ ConnectedLinks : AsLoaded(i)

\* Orientation has returned where a link apart from the root was left
\* unprocessed and as loaded, and a link connected to the root was processed
\* and turned round.
C21_Witness ==
    /\ Oriented
    /\ \E i \in processed_links :
        /\ links[i].from_location # links[i].to_location
        /\ Reversed(i)
    /\ \E i \in DOMAIN links \ processed_links : AsLoaded(i)
    /\ Cardinality(processed_locations) < NumLocations

\* Orientation has returned where the root has no link and a link between
\* two other locations was left unprocessed and as loaded.
C21_IsolatedRoot ==
    /\ Oriented
    /\ processed_locations = {root_switch}
    /\ \E i \in DOMAIN links \ processed_links :
        /\ links[i].from_location # links[i].to_location
        /\ AsLoaded(i)

====
